---- MODULE Spec2Model ----
(***************************************************************************)
(* Model of the GitHub issue agent (createGitHubIssueTool.execute and the  *)
(* Agent resolver) and of the simple completion relay agent.               *)
(*                                                                         *)
(* Text is a sequence of fragments; string concatenation (template         *)
(* literals) is \o.  A repository identifier is a sequence of one-char     *)
(* fragments so that String.prototype.split("/") can be computed.          *)
(***************************************************************************)
EXTENDS Integers, Sequences, FiniteSets, TLC

VARIABLES githubToken, toolPc, toolRun,
          pc, requestText, genState, steps, pending, toolCalls, toolResults,
          text, genError, modelCalls, issuesCreateCalls, responses,
          relayPc, relayInput, relayContent, relayReply, relayResponses

toolVars == <<toolPc, toolRun>>
agentVars == <<pc, requestText, genState, steps, pending, toolCalls,
               toolResults, text, genError, modelCalls, issuesCreateCalls,
               responses>>
relayVars == <<relayPc, relayInput, relayContent, relayReply, relayResponses>>
vars == <<githubToken, toolVars, agentVars, relayVars>>

---------------------------------------------------------------------------
(* Bounds *)

MaxRepoLen == 5
MaxBatch == 1
MaxTextLen == 5

---------------------------------------------------------------------------
(* JavaScript values *)

\* undefined / null (an absent value)
Undefined == <<"\\undefined">>

\* JS truthiness of a string-or-undefined value: undefined and "" are falsy
Truthy(v) == v # Undefined /\ v # <<>>

SeqsUpTo(S, n) == UNION {[1..k -> S] : k \in 0..n}

\* an Error object, or any other thrown value
ErrorObj(m) == [isError |-> TRUE, message |-> m, value |-> Undefined]
ThrownValue(v) == [isError |-> FALSE, message |-> Undefined, value |-> v]

\* error instanceof Error ? error.message : String(error)
ErrorMessage(error) == IF error.isError THEN error.message ELSE error.value

---------------------------------------------------------------------------
(* createGitHubIssueTool.execute *)

RepoChars == {"a", "b", "/"}
Repositories == SeqsUpTo(RepoChars, MaxRepoLen)
Titles == {<<"Crash on startup">>}
Bodies == {<<"## Null pointer on launch">>}
ToolArguments == [repository : Repositories, title : Titles, body : Bodies]

\* values of process.env.GITHUB_TOKEN
Tokens == {Undefined, <<>>, <<"ghp_token">>}

\* replies of octokit.rest.issues.create: a response carrying html_url, or
\* a thrown error
Urls == {<<"https://github.com/o/r/issues/42">>, <<>>}
ApiThrown == {ErrorObj(<<"Not Found">>), ThrownValue(<<"socket hang up">>)}
ApiOk(u) == [ok |-> TRUE, html_url |-> u, thrown |-> Undefined]
ApiFail(e) == [ok |-> FALSE, html_url |-> Undefined, thrown |-> e]
ApiReplies == {ApiOk(u) : u \in Urls} \cup {ApiFail(e) : e \in ApiThrown}

TokenMissingMsg ==
    <<"GitHub token is not configured. Please set the GITHUB_TOKEN environment variable.">>
InvalidRepoMsg ==
    <<"Invalid repository format. Please use the format: owner/repo">>

\* String.prototype.split("/"): the segments between separators ("" gives [""])
RECURSIVE split(_, _)
split(s, cur) ==
    IF s = <<>> THEN <<cur>>
    ELSE IF Head(s) = "/" THEN <<cur>> \o split(Tail(s), <<>>)
    ELSE split(Tail(s), Append(cur, Head(s)))

\* array destructuring: element i, undefined past the end
Element(arr, i) == IF i <= Len(arr) THEN arr[i] ELSE Undefined

SuccessOutcome(repository, url) ==
    [success |-> TRUE, url |-> url,
     message |-> <<"Issue created successfully in ">> \o repository \o <<"!">>,
     error |-> Undefined]

FailureOutcome(error) ==
    [success |-> FALSE, url |-> Undefined,
     message |-> <<"Failed to create issue: ">> \o ErrorMessage(error),
     error |-> ErrorMessage(error)]

Returned(outcome, calls) ==
    [kind |-> "return", value |-> outcome, error |-> Undefined, apiCalls |-> calls]
Threw(error, calls) ==
    [kind |-> "throw", value |-> Undefined, error |-> error, apiCalls |-> calls]

\* a variant that repeats a failed issues.create call once
execute_retry(token, args, reply) ==
    LET parts == split(args.repository, <<>>)
        owner == Element(parts, 1)
        repo  == Element(parts, 2)
        call  == [owner |-> owner, repo |-> repo,
                  title |-> args.title, body |-> args.body]
    IN  IF ~Truthy(token) THEN Threw(ErrorObj(TokenMissingMsg), <<>>)
        ELSE IF ~Truthy(owner) \/ ~Truthy(repo)
             THEN Returned(FailureOutcome(ErrorObj(InvalidRepoMsg)), <<>>)
        ELSE IF reply.ok
             THEN Returned(SuccessOutcome(args.repository, reply.html_url), <<call>>)
        ELSE Returned(FailureOutcome(reply.thrown), <<call, call>>)

\* a variant whose token check sits inside the try block
execute_guarded(token, args, reply) ==
    LET parts == split(args.repository, <<>>)
        owner == Element(parts, 1)
        repo  == Element(parts, 2)
        call  == [owner |-> owner, repo |-> repo,
                  title |-> args.title, body |-> args.body]
    IN  IF ~Truthy(token)
             THEN Returned(FailureOutcome(ErrorObj(TokenMissingMsg)), <<>>)
        ELSE IF ~Truthy(owner) \/ ~Truthy(repo)
             THEN Returned(FailureOutcome(ErrorObj(InvalidRepoMsg)), <<>>)
        ELSE IF reply.ok
             THEN Returned(SuccessOutcome(args.repository, reply.html_url), <<call>>)
        ELSE Returned(FailureOutcome(reply.thrown), <<call>>)

\* execute: the result of one run of the handler with the given environment
\* token, the arguments and the reply the issue API gives if it is called.
\* apiCalls lists the issues.create calls the run made.
execute(token, args, reply) ==
    LET parts == split(args.repository, <<>>)
        owner == Element(parts, 1)
        repo  == Element(parts, 2)
        call  == [owner |-> owner, repo |-> repo,
                  title |-> args.title, body |-> args.body]
    IN  IF ~Truthy(token) THEN Threw(ErrorObj(TokenMissingMsg), <<>>)
        ELSE IF ~Truthy(owner) \/ ~Truthy(repo)
             THEN Returned(FailureOutcome(ErrorObj(InvalidRepoMsg)), <<>>)
        ELSE IF reply.ok
             THEN Returned(SuccessOutcome(args.repository, reply.html_url), <<call>>)
        ELSE Returned(FailureOutcome(reply.thrown), <<call>>)

NoRun == [ran |-> FALSE]

\* one direct invocation of the tool handler
ToolRun ==
    \E args \in ToolArguments, reply \in ApiReplies :
        /\ toolPc = "ready"
        /\ toolRun' = [ran |-> TRUE, args |-> args, reply |-> reply,
                       result |-> execute(githubToken, args, reply)]
        /\ toolPc' = "returned"
        /\ UNCHANGED <<githubToken, agentVars, relayVars>>

---------------------------------------------------------------------------
(* Agent: the issue-request resolver *)

MaxSteps == 2

\* values of await req.data.text()
RequestTexts == {Undefined, <<>>, <<"Open an issue about the login bug">>}

\* what the language model can produce
ModelTexts == {<<"Which repository should I use?">>, <<>>}
ModelRepositories == {<<"a", "/", "b">>, <<"a">>, <<"a", "/", "b", "/", "a">>}
ModelToolCallArgs == [repository : ModelRepositories, title : Titles, body : Bodies]
ModelBatches == SeqsUpTo(ModelToolCallArgs, MaxBatch) \ {<<>>}
ModelErrors == {ErrorObj(<<"model overloaded">>)}

PleaseProvideMsg ==
    <<"Please provide details about the issue you want to create.">>
ViewItAt == <<" View it at: ">>
ErrorOccurredPrefix == <<"An error occurred while processing your request: ">>
TypeErrorMsg == <<"Cannot read properties of undefined (reading 'success')">>

\* a variant that reports on the first tool result
lastToolCall_first(results) == results[1]

\* result.toolResults[result.toolResults.length - 1]?.result, for a
\* non-empty result.toolResults
lastToolCall(results) == results[Len(results)]

\* a variant whose success test is inverted
formatIssueResult_inverted(issueResult) ==
    IF ~issueResult.success
    THEN issueResult.message \o ViewItAt \o issueResult.url
    ELSE issueResult.message

\* a variant that drops the url from the text
formatIssueResult_nourl(issueResult) ==
    IF issueResult.success /\ Truthy(issueResult.url)
    THEN issueResult.message
    ELSE issueResult.message

\* the success/url rule applied to one outcome
formatIssueResult(issueResult) ==
    IF issueResult.success /\ Truthy(issueResult.url)
    THEN issueResult.message \o ViewItAt \o issueResult.url
    ELSE issueResult.message

\* the text the catch block responds with
catchText(error) == ErrorOccurredPrefix \o ErrorMessage(error)

\* a variant without the zero-tool-call branch
responseText_notext(calls, results, modelText) ==
    IF Len(results) = 0
    THEN catchText(ErrorObj(TypeErrorMsg))
    ELSE formatIssueResult(lastToolCall(results))

\* the text Agent responds with once generateText has resolved
responseText(calls, results, modelText) ==
    IF Len(calls) = 0 THEN modelText
    ELSE IF Len(results) = 0
         THEN catchText(ErrorObj(TypeErrorMsg))
    ELSE formatIssueResult(lastToolCall(results))

\* a variant that lets every request through to the model
AgentStart_nocheck ==
    /\ pc = "start"
    /\ pc' = "generate"
    /\ genState' = "running"
    /\ modelCalls' = modelCalls + 1
    /\ UNCHANGED <<githubToken, toolVars, relayVars, requestText, steps,
                   pending, toolCalls, toolResults, text, genError,
                   issuesCreateCalls, responses>>

\* Agent up to the call of generateText
AgentStart ==
    /\ pc = "start"
    /\ IF ~Truthy(requestText)
       THEN /\ responses' = Append(responses, PleaseProvideMsg)
            /\ pc' = "done"
            /\ UNCHANGED <<genState, modelCalls>>
       ELSE /\ pc' = "generate"
            /\ genState' = "running"
            /\ modelCalls' = modelCalls + 1
            /\ UNCHANGED responses
    /\ UNCHANGED <<githubToken, toolVars, relayVars, requestText, steps,
                   pending, toolCalls, toolResults, text, genError,
                   issuesCreateCalls>>

\* generateText: the model answers a step with plain text, which ends it
ModelText ==
    \E t \in ModelTexts :
        /\ genState = "running" /\ pending = <<>> /\ steps < MaxSteps
        /\ text' = t
        /\ steps' = steps + 1
        /\ genState' = "resolved"
        /\ UNCHANGED <<githubToken, toolVars, relayVars, pc, requestText,
                       pending, toolCalls, toolResults, genError, modelCalls,
                       issuesCreateCalls, responses>>

\* generateText: the model answers a step with tool calls
ModelToolCalls ==
    \E batch \in ModelBatches :
        /\ genState = "running" /\ pending = <<>> /\ steps < MaxSteps
        /\ toolCalls' = toolCalls \o batch
        /\ pending' = batch
        /\ steps' = steps + 1
        /\ UNCHANGED <<githubToken, toolVars, relayVars, pc, requestText,
                       genState, toolResults, text, genError, modelCalls,
                       issuesCreateCalls, responses>>

\* generateText: the inference call fails
ModelFail ==
    \E e \in ModelErrors :
        /\ genState = "running" /\ pending = <<>> /\ steps < MaxSteps
        /\ genState' = "rejected"
        /\ genError' = e
        /\ UNCHANGED <<githubToken, toolVars, relayVars, pc, requestText,
                       steps, pending, toolCalls, toolResults, text,
                       modelCalls, issuesCreateCalls, responses>>

\* generateText runs the handler for the next requested tool call; a thrown
\* error rejects generateText, and the step cap ends it after the last result
ToolExecute ==
    \E reply \in ApiReplies :
        LET r == execute(githubToken, Head(pending), reply) IN
        /\ genState = "running" /\ pending # <<>>
        /\ issuesCreateCalls' = issuesCreateCalls + Len(r.apiCalls)
        /\ IF r.kind = "return"
           THEN /\ toolResults' = Append(toolResults, r.value)
                /\ pending' = Tail(pending)
                /\ genState' = IF Tail(pending) = <<>> /\ steps = MaxSteps
                               THEN "resolved" ELSE "running"
                /\ UNCHANGED genError
           ELSE /\ genState' = "rejected"
                /\ genError' = r.error
                /\ pending' = <<>>
                /\ UNCHANGED toolResults
        /\ UNCHANGED <<githubToken, toolVars, relayVars, pc, requestText,
                       steps, toolCalls, text, modelCalls, responses>>

\* Agent after generateText resolved: the decision procedure
AgentRespond ==
    /\ pc = "generate" /\ genState = "resolved"
    /\ responses' = Append(responses, responseText(toolCalls, toolResults, text))
    /\ pc' = "done"
    /\ UNCHANGED <<githubToken, toolVars, relayVars, requestText, genState,
                   steps, pending, toolCalls, toolResults, text, genError,
                   modelCalls, issuesCreateCalls>>

\* a variant whose catch block lets the error go
AgentCatch_rethrow ==
    /\ pc = "generate" /\ genState = "rejected"
    /\ pc' = "done"
    /\ UNCHANGED <<githubToken, toolVars, relayVars, requestText, genState,
                   steps, pending, toolCalls, toolResults, text, genError,
                   modelCalls, issuesCreateCalls, responses>>

\* Agent after generateText rejected: the catch block
AgentCatch ==
    /\ pc = "generate" /\ genState = "rejected"
    /\ responses' = Append(responses, catchText(genError))
    /\ pc' = "done"
    /\ UNCHANGED <<githubToken, toolVars, relayVars, requestText, genState,
                   steps, pending, toolCalls, toolResults, text, genError,
                   modelCalls, issuesCreateCalls>>

---------------------------------------------------------------------------
(* The simple completion relay *)

SayThisIsATest == <<"Say this is a test">>
SomethingWentWrong == <<"Something went wrong">>

TextChars == {"x", "y"}
RelayInputs == {Undefined} \cup SeqsUpTo(TextChars, MaxTextLen)

\* replies of client.chat.completions.create: no choice, a choice without
\* content, or a choice with content
NoChoice == [choices |-> 0, content |-> Undefined]
Choice(c) == [choices |-> 1, content |-> c]
Completions == {NoChoice, Choice(Undefined), Choice(<<>>), Choice(<<"This is a test">>)}

\* v ?? fallback
Coalesce(v, fallback) == IF v = Undefined THEN fallback ELSE v

\* the relay sends the completion request
RelaySend ==
    /\ relayPc = "start"
    /\ relayContent' = Coalesce(relayInput, SayThisIsATest)
    /\ relayPc' = "sent"
    /\ UNCHANGED <<githubToken, toolVars, agentVars, relayInput, relayReply,
                   relayResponses>>

\* the completion arrives and the relay responds
RelayRespond ==
    \E completion \in Completions :
        /\ relayPc = "sent"
        /\ relayReply' = completion
        /\ relayResponses' = Append(relayResponses,
               Coalesce(IF completion.choices > 0 THEN completion.content
                        ELSE Undefined, SomethingWentWrong))
        /\ relayPc' = "done"
        /\ UNCHANGED <<githubToken, toolVars, agentVars, relayInput,
                       relayContent>>

---------------------------------------------------------------------------
(* Specification: one of the three entry points is exercised *)

AgentIdle ==
    /\ steps = 0 /\ pending = <<>> /\ toolCalls = <<>> /\ toolResults = <<>>
    /\ text = <<>> /\ genError = Undefined /\ genState = "none"
    /\ modelCalls = 0 /\ issuesCreateCalls = 0 /\ responses = <<>>

RelayIdle ==
    /\ relayContent = Undefined /\ relayReply = Undefined
    /\ relayResponses = <<>>

InitTool ==
    /\ githubToken \in Tokens
    /\ toolPc = "ready" /\ toolRun = NoRun
    /\ pc = "off" /\ requestText = Undefined /\ AgentIdle
    /\ relayPc = "off" /\ relayInput = Undefined /\ RelayIdle

InitAgent ==
    /\ githubToken \in Tokens
    /\ toolPc = "off" /\ toolRun = NoRun
    /\ pc = "start" /\ requestText \in RequestTexts /\ AgentIdle
    /\ relayPc = "off" /\ relayInput = Undefined /\ RelayIdle

InitRelay ==
    /\ githubToken = Undefined
    /\ toolPc = "off" /\ toolRun = NoRun
    /\ pc = "off" /\ requestText = Undefined /\ AgentIdle
    /\ relayPc = "start" /\ relayInput \in RelayInputs /\ RelayIdle

Init == InitTool \/ InitAgent \/ InitRelay

Next ==
    \/ ToolRun
    \/ AgentStart
    \/ ModelText
    \/ ModelToolCalls
    \/ ModelFail
    \/ ToolExecute
    \/ AgentRespond
    \/ AgentCatch
    \/ RelaySend
    \/ RelayRespond

Spec == Init /\ [][Next]_vars

---------------------------------------------------------------------------
(* Properties *)

\* the number of "/" in a repository identifier
RECURSIVE SlashCount(_)
SlashCount(s) ==
    IF s = <<>> THEN 0
    ELSE (IF Head(s) = "/" THEN 1 ELSE 0) + SlashCount(Tail(s))

\* exactly one "/" separating two non-empty segments
OwnerSlashRepo(s) ==
    /\ SlashCount(s) = 1
    /\ s[1] # "/"
    /\ s[Len(s)] # "/"

\* does text t contain the fragment f
Contains(t, f) == \E i \in 1..Len(t) : t[i] = f

\* the message carried by a thrown value
Msg(e) == IF e.isError THEN e.message ELSE e.value

\* the agent has finished through the decision procedure, having tool results
Reported ==
    /\ pc = "done" /\ genState = "resolved"
    /\ toolCalls # <<>> /\ toolResults # <<>>

LastOutcome == toolResults[Len(toolResults)]
HasUrl(o) == o.url # Undefined /\ o.url # <<>>

\* C1: with the credential configured, every repository argument that is not
\* exactly one "/" between two non-empty segments is answered with
\* success=false and a message containing "Invalid repository format", and
\* the issue-creation API is not called.
C1_InvalidRepositoryRejected ==
    (toolRun.ran /\ Truthy(githubToken)
        /\ ~OwnerSlashRepo(toolRun.args.repository))
    => /\ toolRun.result.kind = "return"
       /\ toolRun.result.value.success = FALSE
       /\ Contains(toolRun.result.value.message, InvalidRepoMsg[1])
       /\ toolRun.result.apiCalls = <<>>

\* C2 (as stated): the handler never throws; every failure, a missing
\* credential included, is returned as an outcome with success=false,
\* error=<message> and message="Failed to create issue: <message>".
C2_NeverThrows ==
    toolRun.ran
    => /\ toolRun.result.kind = "return"
       /\ ~Truthy(githubToken)
          => /\ toolRun.result.value.success = FALSE
             /\ toolRun.result.value.error = TokenMissingMsg
             /\ toolRun.result.value.message
                  = <<"Failed to create issue: ">> \o TokenMissingMsg

\* C2 (amended): with the credential present the handler always returns; a
\* run that made no API call returns the invalid-repository failure, a run
\* whose API call failed returns that failure, each as success=false,
\* error=<message>, message="Failed to create issue: <message>".  With the
\* credential missing the handler throws the configuration error and calls
\* no API.
C2_TryBlockFailuresReturned ==
    toolRun.ran
    => LET r == toolRun.result IN
       IF Truthy(githubToken)
       THEN /\ r.kind = "return"
            /\ r.apiCalls = <<>>
               => /\ r.value.success = FALSE
                  /\ r.value.error = InvalidRepoMsg
            /\ (r.apiCalls # <<>> /\ ~toolRun.reply.ok)
               => /\ r.value.success = FALSE
                  /\ r.value.error = Msg(toolRun.reply.thrown)
            /\ (r.apiCalls # <<>> /\ toolRun.reply.ok)
               => r.value.success = TRUE
            /\ r.value.success = FALSE
               => r.value.message
                    = <<"Failed to create issue: ">> \o r.value.error
       ELSE /\ r.kind = "throw"
            /\ r.error.isError /\ r.error.message = TokenMissingMsg
            /\ r.apiCalls = <<>>

C2_Witness ==
    /\ toolRun.ran /\ Truthy(githubToken)
    /\ ~toolRun.reply.ok
    /\ toolRun.result.kind = "return"
    /\ toolRun.result.value.message
         = <<"Failed to create issue: ", "Not Found">>

\* C3: a request whose text is empty or absent is answered with the fixed
\* message and no model call, tool call or issue-creation call is made.
C3_EmptyRequestShortCircuits ==
    (pc # "off" /\ (requestText = Undefined \/ requestText = <<>>))
    => /\ modelCalls = 0 /\ genState = "none"
       /\ toolCalls = <<>> /\ toolResults = <<>>
       /\ issuesCreateCalls = 0
       /\ pc \in {"start", "done"}
       /\ pc = "done"
          => responses
               = <<<<"Please provide details about the issue you want to create.">>>>

C3_Witness ==
    /\ pc = "done" /\ requestText = <<>>
    /\ responses = <<PleaseProvideMsg>>
    /\ modelCalls = 0

\* C4: when several tool results were produced, the response is formatted
\* from the last one by the success/url rule.
C4_LastToolResultWins ==
    (Reported /\ Len(toolResults) >= 2)
    => responses
         = << IF LastOutcome.success /\ HasUrl(LastOutcome)
              THEN LastOutcome.message \o <<" View it at: ">> \o LastOutcome.url
              ELSE LastOutcome.message >>

C4_Witness ==
    /\ Reported /\ Len(toolResults) >= 2
    /\ toolResults[1].success /\ HasUrl(toolResults[1])
    /\ ~LastOutcome.success
    /\ responses = <<LastOutcome.message>>

C6_FailureReportsMessage ==
    (Reported /\ ~(LastOutcome.success /\ HasUrl(LastOutcome)))
    => /\ responses = <<LastOutcome.message>>
       /\ ~Contains(responses[1], " View it at: ")

C6_Witness ==
    /\ Reported /\ ~LastOutcome.success
    /\ responses = <<LastOutcome.message>>

C6_WitnessNoUrl ==
    /\ Reported /\ LastOutcome.success /\ ~HasUrl(LastOutcome)
    /\ responses = <<LastOutcome.message>>

\* C7: when the reported outcome is a success carrying a url, the response
\* is "<message> View it at: <url>"; the handler's success outcome for
\* repository R and created url U carries U and the message "Issue created
\* successfully in R!", so the response is "Issue created successfully in
\* R! View it at: U".
C7_SuccessReportsUrl ==
    /\ (Reported /\ LastOutcome.success /\ HasUrl(LastOutcome))
       => /\ responses
               = <<LastOutcome.message \o <<" View it at: ">> \o LastOutcome.url>>
          /\ responses[1]
               = <<"Issue created successfully in ">>
                 \o toolCalls[Len(toolResults)].repository
                 \o <<"!", " View it at: ">> \o LastOutcome.url
    /\ (toolRun.ran /\ toolRun.result.kind = "return"
          /\ toolRun.result.value.success)
       => /\ toolRun.reply.ok
          /\ toolRun.result.value.url = toolRun.reply.html_url
          /\ toolRun.result.value.message
               = <<"Issue created successfully in ">>
                 \o toolRun.args.repository \o <<"!">>

C7_Witness ==
    /\ Reported
    /\ responses
         = << <<"Issue created successfully in ", "a", "/", "b", "!",
                " View it at: ", "https://github.com/o/r/issues/42">> >>

\* C8: when the model made no tool call, the response is the model's text
\* and no issue-creation call has been made.
C8_NoToolCallReturnsText ==
    (pc = "done" /\ genState = "resolved" /\ toolCalls = <<>>)
    => /\ responses = <<text>>
       /\ issuesCreateCalls = 0

C8_Witness ==
    /\ pc = "done" /\ genState = "resolved" /\ toolCalls = <<>>
    /\ responses = <<<<"Which repository should I use?">>>>

\* C9: the relay sends "Say this is a test" when the request input is empty
\* or absent, and the request text itself otherwise.
C9_FallbackOnEmptyOrAbsent ==
    relayPc \in {"sent", "done"}
    => relayContent
         = IF relayInput = Undefined \/ relayInput = <<>>
           THEN <<"Say this is a test">>
           ELSE relayInput

\* C10: one run of the handler calls the issue-creation API at most once,
\* and only with the credential present and a non-empty owner and repo; a
\* failed call is not repeated and gives one failure outcome.
C10_AtMostOneApiCall ==
    /\ toolRun.ran
       => LET r == toolRun.result IN
          /\ Len(r.apiCalls) <= 1
          /\ r.apiCalls # <<>>
             => /\ githubToken # Undefined /\ githubToken # <<>>
                /\ r.apiCalls[1].owner # Undefined /\ r.apiCalls[1].owner # <<>>
                /\ r.apiCalls[1].repo # Undefined /\ r.apiCalls[1].repo # <<>>
                /\ Len(toolRun.args.repository)
                     >= Len(r.apiCalls[1].owner) + 1 + Len(r.apiCalls[1].repo)
          /\ (r.apiCalls # <<>> /\ ~toolRun.reply.ok)
             => /\ r.kind = "return"
                /\ r.value.success = FALSE
    /\ issuesCreateCalls <= Len(toolCalls) - Len(pending)
    /\ issuesCreateCalls > 0 => (githubToken # Undefined /\ githubToken # <<>>)

C10_Witness ==
    /\ toolRun.ran /\ ~toolRun.reply.ok
    /\ Len(toolRun.result.apiCalls) = 1
    /\ toolRun.result.value.success = FALSE

====
